---- MODULE Spec2Model ----
(***************************************************************************)
(* A model of the two MCP clients of the repository.                       *)
(*                                                                         *)
(*  - MCPDiagramClient (src/mcp_demo/mcp_client.py): a child process with  *)
(*    stdin/stdout pipes, start_server / stop_server, and send_request,    *)
(*    which writes one JSON line and reads one line back.  The two         *)
(*    architecture widgets drive it through _ensure_server_running and     *)
(*    cleanup and keep the flag is_server_running.                         *)
(*  - TerraformMCPClient (src/mcp_client.py): the connect() context and    *)
(*    the operations that use self.session.                                *)
(*                                                                         *)
(* Callers are threads that may run send_request at the same time; one     *)
(* controller thread runs start_server / stop_server; the child processes  *)
(* are the environment.                                                    *)
(***************************************************************************)
EXTENDS Integers, Sequences, FiniteSets, TLC

\* ---------------------------------------------------------------- bounds
NumCallers == 2
MaxReq == 2
MaxSpawns == 2
MaxJunk == 1

Callers == 1..NumCallers
Pids == 1..MaxSpawns

\* the literal id of every request, mcp_client.py line 92
RequestId == 1

\* the methods the client sends (lines 126, 130, 134)
Methods == {"initialize", "tools/list", "generate_diagram"}

VARIABLES
    server_process,     \* self.server_process: 0 is None, else the pid of the Popen object
    pstate,             \* pid -> "unborn" | "running" | "exited"
    sigterm,            \* pid -> whether terminate() has signalled the running child
    stdin,              \* the request frames written to the child of self.server_process
                        \* that it has not answered yet
    stdout,             \* the lines in the stdout pipe of self.server_process, not yet read
    usedIds,            \* the ids of the requests written to that child so far (history)
    wire,               \* what the stdin.write() calls have put into the stdin pipe of
                        \* that child, in the order of the calls (history)
    wpos,               \* caller -> how many write() calls of its frame are done
    junk,               \* how many lines that answer no request the children have emitted
    pc,                 \* caller -> where the caller's send_request stands
    req,                \* caller -> the request of the call in progress
    returned,           \* what the send_request that has just returned gave back, and to whom
    nextSeq,            \* the number of the next call (history, not in the code)
    ctl,                \* the controller: "idle" | "starting" | "stopping"
    via,                \* whether the controller's start_server came through the widget
    is_server_running,  \* the widget's flag
    handshook,          \* an initialize call has returned its own successful reply (history)
    stops,              \* stop_server calls that have returned since the last start (history)
    lastExc,            \* the exception that escaped the last stop_server call, "none" if none
    \* TerraformMCPClient (src/mcp_client.py)
    session,            \* self.session: "none" | "set"
    sessionOpen,        \* the ClientSession self.session names is inside its async with
    ctx,                \* where connect() stands: "out" | "spawned" | "in"
    tfChild,            \* the server process of stdio_client: "none" | "running" | "exited"
    connects,           \* how many times connect() has been entered (history)
    outcome,            \* how the operation that has just ended ended
    \* the functions studied on their own: their arguments, locals and results
    fpc,                \* where the call under study stands, "idle" outside it
    environ,            \* os.environ: a dict, as a function from its keys
    env,                \* self.server_config.get('env', {})
    merged_env,         \* the env= argument of Popen (mcp_client.py line 60)
    solution_text,      \* the argument of _parse_aws_components, as a sequence of words
    components,         \* the list _parse_aws_components builds and returns
    message,            \* the dict that is encoded into a frame
    encoded,            \* the characters of the frame in the pipe
    decoded,            \* what the reader of the frame made of it
    route,              \* the web route that is being served
    result,             \* what the client call of the route gave
    answer,             \* the response of the route
    cwd,                \* the current working directory of the process
    original_dir,       \* the local original_dir of _generate_diagram_direct
    diagram_file,       \* whether the file at diagram_path exists
    temp_dir,           \* the local temp_dir: os.path.dirname(diagram_path)
    entry_dir           \* the working directory when the call began (history)

\* the variables of the diagram client and of the Terraform client
dvars == <<server_process, pstate, sigterm, stdin, stdout, usedIds, wire, wpos, junk, pc, req,
           returned, nextSeq, ctl, via, is_server_running, handshook, stops, lastExc>>

tvars == <<session, sessionOpen, ctx, tfChild, connects, outcome>>

fvars == <<fpc, environ, env, merged_env, solution_text, components, message, encoded, decoded,
           route, result, answer, cwd, original_dir, diagram_file, temp_dir, entry_dir>>

vars == <<dvars, tvars, fvars>>

\* ------------------------------------------------------------ values
NoReq == [method |-> "", seq |-> 0]

NoResult ==
    [by |-> 0, kind |-> "none", msg |-> "", seq |-> 0, re |-> 0, id |-> 0, body |-> "",
     nl |-> TRUE]

\* {"error": msg} returned by send_request to caller c for the call numbered seq
ErrorResult(c, msg, seq) ==
    [by |-> c, kind |-> "error", msg |-> msg, seq |-> seq, re |-> 0, id |-> 0, body |-> "",
     nl |-> TRUE]

\* the request dict of lines 90-95 as written to the pipe; seq is history: the
\* number of the call that wrote it
Frame(method, seq) == [id |-> RequestId, method |-> method, seq |-> seq]

\* how an operation of TerraformMCPClient ended: what it returned or raised, whether
\* the session was Ready when it was called, and whether it used self.session
NoOutcome ==
    [op |-> "none", kind |-> "none", detail |-> "", ready |-> FALSE, touched |-> FALSE,
     response |-> "", content_length |-> 0]

\* a start_server that takes every child it has spawned to be alive
AliveUnpolled(p) == p # 0

\* self.server_process.poll() is None
Alive(p) == p # 0 /\ pstate[p] = "running"

\* the guard of line 87: not self.server_process or poll() is not None
NotRunning == server_process = 0 \/ pstate[server_process] # "running"

\* readline() on the child's stdout has reached the end of the child's output
AtEOF == server_process # 0 /\ pstate[server_process] = "exited" /\ stdout = <<>>

\* the clients after construction (mcp_demo/mcp_client.py 20-27, mcp_client.py 21-24)
ClientsInit ==
    /\ server_process = 0
    /\ pstate = [p \in Pids |-> "unborn"]
    /\ sigterm = [p \in Pids |-> FALSE]
    /\ stdin = {}
    /\ stdout = <<>>
    /\ usedIds = {}
    /\ wire = <<>>
    /\ wpos = [c \in Callers |-> 0]
    /\ junk = 0
    /\ pc = [c \in Callers |-> "idle"]
    /\ req = [c \in Callers |-> NoReq]
    /\ returned = NoResult
    /\ nextSeq = 1
    /\ ctl = "idle"
    /\ via = "direct"
    /\ is_server_running = FALSE
    /\ handshook = FALSE
    /\ stops = 0
    /\ lastExc = "none"
    /\ session = "none"
    /\ sessionOpen = FALSE
    /\ ctx = "out"
    /\ tfChild = "none"
    /\ connects = 0
    /\ outcome = NoOutcome

NoMessage == [kind |-> "none", method |-> <<>>, payload |-> <<>>]
NoRoute == [name |-> "none", resource_type |-> ""]
NoAnswer == [json |-> FALSE, status |-> "none", code |-> 0]

\* no call under study has begun
EnvIdle == environ = <<>> /\ env = <<>> /\ merged_env = <<>>
ParseIdle == solution_text = <<>> /\ components = <<>>
FrameIdle == message = NoMessage /\ encoded = <<>> /\ decoded = NoMessage
RouteIdle == route = NoRoute /\ result = "none" /\ answer = NoAnswer
CwdIdle ==
    cwd = "" /\ original_dir = "" /\ diagram_file = FALSE /\ temp_dir = "" /\ entry_dir = ""

Init ==
    /\ ClientsInit
    /\ fpc = "idle"
    /\ EnvIdle /\ ParseIdle /\ FrameIdle /\ RouteIdle /\ CwdIdle

\* ------------------------------------------------- send_request (85-113)
\* lines 87-88: the guard; a call on a client that is not running returns at once
Call(c, m) ==
    /\ pc[c] = "idle"
    /\ nextSeq <= MaxReq
    /\ nextSeq' = nextSeq + 1
    /\ IF NotRunning
       THEN /\ returned' = ErrorResult(c, "Server not running", nextSeq)
            /\ UNCHANGED <<pc, req>>
       ELSE /\ pc' = [pc EXCEPT ![c] = "write"]
            /\ req' = [req EXCEPT ![c] = [method |-> m, seq |-> nextSeq]]
            /\ returned' = NoResult
    /\ UNCHANGED <<server_process, pstate, sigterm, stdin, stdout, usedIds, junk,
                   ctl, via, is_server_running, handshook, stops, lastExc>>
    /\ UNCHANGED <<wire, wpos>>
    /\ UNCHANGED <<tvars, fvars>>

\* lines 99-100 with the frame split over two write() calls, the JSON text and
\* then the newline
WriteCallsSplit(f) ==
    <<[seq |-> f.seq, text |-> "json"], [seq |-> f.seq, text |-> "newline"]>>

\* lines 99-100 with the frame written twice
WriteCallsTwice(f) ==
    <<[seq |-> f.seq, text |-> "json+newline"], [seq |-> f.seq, text |-> "json+newline"]>>

\* lines 99-100: the strings the frame is handed to stdin.write() in: one string,
\* the JSON text with the newline appended; the stream takes a write() call whole
WriteCalls(f) == <<[seq |-> f.seq, text |-> "json+newline"]>>

\* lines 99-104: write the frame and flush, then enter readline(); a child that has
\* exited breaks the pipe, and the exception is caught at line 111
Write(c) ==
    /\ pc[c] = "write"
    /\ LET f == Frame(req[c].method, req[c].seq)
           calls == WriteCalls(f)
           i == wpos[c] + 1
       IN  IF pstate[server_process] = "running"
           THEN /\ wire' = Append(wire, calls[i])
                /\ IF i = Len(calls)
                   THEN /\ stdin' = stdin \cup {f}
                        /\ usedIds' = usedIds \cup {f.id}
                        /\ pc' = [pc EXCEPT ![c] = "blocked"]
                        /\ wpos' = [wpos EXCEPT ![c] = 0]
                   ELSE /\ wpos' = [wpos EXCEPT ![c] = i]
                        /\ UNCHANGED <<stdin, usedIds, pc>>
                /\ returned' = NoResult
                /\ UNCHANGED req
           ELSE /\ returned' = ErrorResult(c, "Broken pipe", req[c].seq)
                /\ pc' = [pc EXCEPT ![c] = "idle"]
                /\ req' = [req EXCEPT ![c] = NoReq]
                /\ wpos' = [wpos EXCEPT ![c] = 0]
                /\ UNCHANGED <<stdin, usedIds, wire>>
    /\ UNCHANGED <<server_process, pstate, sigterm, stdout, junk, nextSeq,
                   ctl, via, is_server_running, handshook, stops, lastExc>>
    /\ UNCHANGED <<tvars, fvars>>

\* lines 105-113 on a line read: json.loads of a line that is no JSON raises and the
\* handler returns an error; any JSON line is returned as it is, its id unchecked;
\* strip() takes the newline off and nothing asks whether there was one (nl is
\* history: whether the line read ended in a newline)
LineResult(c, line, seq) ==
    IF line.body = "garbage"
    THEN ErrorResult(c, "JSONDecodeError", seq)
    ELSE [by |-> c, kind |-> "reply", msg |-> "", seq |-> seq, re |-> line.re, id |-> line.id,
          body |-> line.body, nl |-> line.nl]

\* a test of the result that looks for the client's own error results only
IsFailureTransportOnly(r) == r.kind = "error"

\* "error" in result (widget lines 231-232): the result is one of the client's
\* {"error": ...} dicts or a reply of the server with an error member
IsFailure(r) == r.kind = "error" \/ (r.kind = "reply" /\ r.body = "error")

\* lines 108-109: readline() returned the empty string
EOFResult(c, seq) == ErrorResult(c, "No response from server", seq)

\* a readline() that does not return at the end of the child's output
CanReadLineOnly == stdout # <<>>

\* readline() returns: a line is there, or the pipe is at its end
CanRead == stdout # <<>> \/ pstate[server_process] = "exited"

\* lines 104-109: readline() returns and the call with it
ReadLine(c) ==
    /\ pc[c] = "blocked"
    /\ CanRead
    /\ IF stdout # <<>>
       THEN LET line == Head(stdout) IN
            /\ stdout' = Tail(stdout)
            /\ returned' = LineResult(c, line, req[c].seq)
            /\ handshook' = (handshook \/ (/\ req[c].method = "initialize"
                                           /\ line.re = req[c].seq
                                           /\ line.body = "result"))
       ELSE /\ returned' = EOFResult(c, req[c].seq)
            /\ UNCHANGED <<stdout, handshook>>
    /\ pc' = [pc EXCEPT ![c] = "idle"]
    /\ req' = [req EXCEPT ![c] = NoReq]
    /\ UNCHANGED <<server_process, pstate, sigterm, stdin, usedIds, junk, nextSeq,
                   ctl, via, is_server_running, stops, lastExc>>
    /\ UNCHANGED <<wire, wpos>>
    /\ UNCHANGED <<tvars, fvars>>

\* ------------------------------------------------------- the child process
\* the server answers one of the requests it has received, in any order, echoing its id
ServerReply(n, b) ==
    /\ Alive(server_process)
    /\ \E f \in stdin :
          /\ f.seq = n
          /\ stdin' = stdin \ {f}
          /\ stdout' = Append(stdout, [id |-> f.id, re |-> f.seq, body |-> b, nl |-> TRUE])
    /\ returned' = NoResult
    /\ UNCHANGED <<server_process, pstate, sigterm, usedIds, junk, pc, req, nextSeq,
                   ctl, via, is_server_running, handshook, stops, lastExc>>
    /\ UNCHANGED <<wire, wpos>>
    /\ UNCHANGED <<tvars, fvars>>

\* the server prints a line that answers no request: a log line that is no JSON
\* ("garbage") or a JSON notification without id ("notify")
ServerJunk(b) ==
    /\ Alive(server_process)
    /\ junk < MaxJunk
    /\ junk' = junk + 1
    /\ stdout' = Append(stdout, [id |-> 0, re |-> 0, body |-> b, nl |-> TRUE])
    /\ returned' = NoResult
    /\ UNCHANGED <<server_process, pstate, sigterm, stdin, usedIds, pc, req, nextSeq,
                   ctl, via, is_server_running, handshook, stops, lastExc>>
    /\ UNCHANGED <<wire, wpos>>
    /\ UNCHANGED <<tvars, fvars>>

\* a child exits: by itself, killed from outside, or on the SIGTERM of terminate()
ChildExit(p) ==
    /\ pstate[p] = "running"
    /\ pstate' = [pstate EXCEPT ![p] = "exited"]
    /\ returned' = NoResult
    /\ UNCHANGED <<server_process, sigterm, stdin, stdout, usedIds, junk, pc, req, nextSeq,
                   ctl, via, is_server_running, handshook, stops, lastExc>>
    /\ UNCHANGED <<wire, wpos>>
    /\ UNCHANGED <<tvars, fvars>>

\* the child exits in the middle of answering a request: the last thing in its
\* output has no newline; it is the whole JSON text of the reply ("result") or a
\* part of it, which is no JSON ("garbage"); readline() returns it at the end of
\* the output
ChildExitMidLine(n, b) ==
    /\ Alive(server_process)
    /\ \E f \in stdin :
          /\ f.seq = n
          /\ stdin' = stdin \ {f}
          /\ stdout' = Append(stdout, [id |-> f.id, re |-> f.seq, body |-> b, nl |-> FALSE])
    /\ pstate' = [pstate EXCEPT ![server_process] = "exited"]
    /\ returned' = NoResult
    /\ UNCHANGED <<server_process, sigterm, usedIds, junk, pc, req, nextSeq,
                   ctl, via, is_server_running, handshook, stops, lastExc>>
    /\ UNCHANGED <<wire, wpos>>
    /\ UNCHANGED <<tvars, fvars>>

\* ------------------------------------------------- start_server (43-76)
Unborn == {p \in Pids : pstate[p] = "unborn"}

\* the thread that owns the client starts the server between calls, not while a
\* send_request is in progress
NoCallInFlight == \A c \in Callers : pc[c] = "idle"

\* lines 54-61: Popen succeeds and self.server_process is the new child; the Popen
\* object it replaces is dropped, and its pipes with it.  w says whether the call
\* comes from the widget's _ensure_server_running (flag not set) or straight from a
\* caller of the client
StartSpawn(w) ==
    /\ ctl = "idle"
    /\ NoCallInFlight
    /\ w = "widget" => ~is_server_running
    /\ Unborn # {}
    /\ LET p == CHOOSE q \in Unborn : \A r \in Unborn : q <= r IN
       /\ pstate' = [pstate EXCEPT ![p] = "running"]
       /\ server_process' = p
    /\ stdin' = {}
    /\ stdout' = <<>>
    /\ usedIds' = {}
    /\ handshook' = FALSE
    /\ ctl' = "starting"
    /\ via' = w
    /\ stops' = 0
    /\ returned' = NoResult
    /\ UNCHANGED <<sigterm, junk, pc, req, nextSeq, is_server_running, lastExc>>
    /\ wire' = <<>>
    /\ UNCHANGED wpos
    /\ UNCHANGED <<tvars, fvars>>

\* lines 54, 74-76: Popen raises (no such executable); start_server returns False
\* and self.server_process is what it was
StartSpawnFails(w) ==
    /\ ctl = "idle"
    /\ NoCallInFlight
    /\ w = "widget" => ~is_server_running
    /\ IF w = "widget"
       THEN is_server_running' = FALSE
       ELSE UNCHANGED is_server_running
    /\ returned' = NoResult
    /\ UNCHANGED <<server_process, pstate, sigterm, stdin, stdout, usedIds, junk, pc, req,
                   nextSeq, ctl, via, handshook, stops, lastExc>>
    /\ UNCHANGED <<wire, wpos>>
    /\ UNCHANGED <<tvars, fvars>>

\* lines 63-72: after the sleep, poll() decides what start_server returns; the
\* widget stores it in is_server_running (widget line 32)
StartCheck ==
    /\ ctl = "starting"
    /\ ctl' = "idle"
    /\ IF via = "widget"
       THEN is_server_running' = Alive(server_process)
       ELSE UNCHANGED is_server_running
    /\ via' = "direct"
    /\ returned' = NoResult
    /\ UNCHANGED <<server_process, pstate, sigterm, stdin, stdout, usedIds, junk, pc, req,
                   nextSeq, handshook, stops, lastExc>>
    /\ UNCHANGED <<wire, wpos>>
    /\ UNCHANGED <<tvars, fvars>>

\* widget lines 31-33 with the flag set: _ensure_server_running returns True and
\* starts nothing
EnsureRunning ==
    /\ ctl = "idle"
    /\ is_server_running
    /\ returned' = NoResult
    /\ UNCHANGED <<server_process, pstate, sigterm, stdin, stdout, usedIds, junk, pc, req,
                   nextSeq, ctl, via, is_server_running, handshook, stops, lastExc>>
    /\ UNCHANGED <<wire, wpos>>
    /\ UNCHANGED <<tvars, fvars>>

\* -------------------------------------------------- stop_server (78-83)
MaxStops == 2

\* stop_server without the guard of line 80
StopGuardMissing == TRUE

\* line 80: if self.server_process
StopGuard == server_process # 0

\* lines 80-82 (also the widgets' cleanup): nothing without a process; terminate()
\* signals a running child and wait() is entered; on a child that has exited
\* terminate() sends nothing and wait() returns at once
StopTerminate ==
    /\ ctl = "idle"
    /\ IF ~StopGuard
       THEN /\ lastExc' = "none"
            /\ UNCHANGED <<sigterm, ctl, stops>>
       ELSE IF server_process = 0
       THEN /\ lastExc' = "AttributeError"
            /\ UNCHANGED <<sigterm, ctl, stops>>
       ELSE IF pstate[server_process] = "running"
       THEN /\ sigterm' = [sigterm EXCEPT ![server_process] = TRUE]
            /\ ctl' = "stopping"
            /\ UNCHANGED <<stops, lastExc>>
       ELSE /\ stops' = IF stops < MaxStops THEN stops + 1 ELSE stops
            /\ lastExc' = "none"
            /\ UNCHANGED <<sigterm, ctl>>
    /\ returned' = NoResult
    /\ UNCHANGED <<server_process, pstate, stdin, stdout, usedIds, junk, pc, req,
                   nextSeq, via, is_server_running, handshook>>
    /\ UNCHANGED <<wire, wpos>>
    /\ UNCHANGED <<tvars, fvars>>

\* line 82: wait() returns when the child has exited
StopWait ==
    /\ ctl = "stopping"
    /\ pstate[server_process] = "exited"
    /\ ctl' = "idle"
    /\ stops' = IF stops < MaxStops THEN stops + 1 ELSE stops
    /\ lastExc' = "none"
    /\ returned' = NoResult
    /\ UNCHANGED <<server_process, pstate, sigterm, stdin, stdout, usedIds, junk, pc, req,
                   nextSeq, via, is_server_running, handshook>>
    /\ UNCHANGED <<wire, wpos>>
    /\ UNCHANGED <<tvars, fvars>>

\* ------------------------------------------- TerraformMCPClient (src/mcp_client.py)
MaxConnects == 3

\* the session is Ready: connect() has yielded, the ClientSession is open and the
\* server runs
TfReady == ctx = "in" /\ sessionOpen /\ tfChild = "running"

\* line 35: stdio_client starts the server process
TfSpawn ==
    /\ ctx = "out"
    /\ connects < MaxConnects
    /\ connects' = connects + 1
    /\ ctx' = "spawned"
    /\ tfChild' = "running"
    /\ outcome' = NoOutcome
    /\ UNCHANGED <<session, sessionOpen>>
    /\ UNCHANGED <<dvars, fvars>>

\* line 35: the server cannot be started; the exception leaves connect()
TfSpawnFails ==
    /\ ctx = "out"
    /\ connects < MaxConnects
    /\ connects' = connects + 1
    /\ outcome' = [op |-> "connect", kind |-> "raise", detail |-> "library",
                   ready |-> FALSE, touched |-> FALSE, response |-> "",
                   content_length |-> 0]
    /\ UNCHANGED <<session, sessionOpen, ctx, tfChild>>
    /\ UNCHANGED <<dvars, fvars>>

\* lines 36-39: the ClientSession is entered, initialize() answered, self.session
\* set and the context yields
TfInitialize ==
    /\ ctx = "spawned"
    /\ tfChild = "running"
    /\ session' = "set"
    /\ sessionOpen' = TRUE
    /\ ctx' = "in"
    /\ outcome' = NoOutcome
    /\ UNCHANGED <<tfChild, connects>>
    /\ UNCHANGED <<dvars, fvars>>

\* lines 36-37: initialize() fails; both contexts unwind, the server is stopped and
\* the exception leaves connect(); self.session is what it was
TfInitializeFails ==
    /\ ctx = "spawned"
    /\ ctx' = "out"
    /\ tfChild' = "exited"
    /\ outcome' = [op |-> "connect", kind |-> "raise", detail |-> "library",
                   ready |-> FALSE, touched |-> FALSE, response |-> "",
                   content_length |-> 0]
    /\ UNCHANGED <<session, sessionOpen, connects>>
    /\ UNCHANGED <<dvars, fvars>>

\* lines 35-39: the body of the with statement ends; the ClientSession and the
\* stdio_client contexts exit, which closes the session and stops the server;
\* nothing assigns self.session
TfExit ==
    /\ ctx = "in"
    /\ ctx' = "out"
    /\ sessionOpen' = FALSE
    /\ tfChild' = "exited"
    /\ outcome' = NoOutcome
    /\ UNCHANGED <<session, connects>>
    /\ UNCHANGED <<dvars, fvars>>

\* the server process exits while the context is open
TfChildExit ==
    /\ tfChild = "running"
    /\ tfChild' = "exited"
    /\ outcome' = NoOutcome
    /\ UNCHANGED <<session, sessionOpen, ctx, connects>>
    /\ UNCHANGED <<dvars, fvars>>

\* what a method of the ClientSession may do: on a session that is not Ready it
\* raises; on a Ready one it raises (an error reply, a lost transport) or returns a
\* response whose content is empty or a text: a JSON text ("json"), a text that is
\* no JSON ("text"), or a JSON text nested deeper than the interpreter's
\* recursion limit ("nested")
Texts == {"json", "text", "nested"}

Responses == Texts \cup {"empty"}

\* json.loads(text): the value, json.JSONDecodeError for a text that is no JSON,
\* RecursionError (no JSONDecodeError) for a JSON text nested too deep
JsonLoads(text) ==
    IF text = "json" THEN "value"
    ELSE IF text = "text" THEN "JSONDecodeError"
    ELSE "RecursionError"

\* len(response.contents[0].text) of a response that has a text
TextLength == 7

SessionCall == IF TfReady THEN Responses \cup {"raise"} ELSE {"raise"}

\* lines 43-44, 61-62, 79-80, 141-142: the guard of every operation, outside any try
NotConnected(op) ==
    [op |-> op, kind |-> "raise", detail |-> "Not connected to MCP server",
     ready |-> TfReady, touched |-> FALSE, response |-> "", content_length |-> 0]

\* lines 41-57 and 59-75: get_available_tools / get_available_resources: the
\* session call stands outside any try; the list is returned as it is
ListOutcome(op, r) ==
    IF session = "none" THEN NotConnected(op)
    ELSE IF r = "raise"
    THEN [op |-> op, kind |-> "raise", detail |-> "library", ready |-> TfReady,
          touched |-> TRUE, response |-> r, content_length |-> 0]
    ELSE [op |-> op, kind |-> "list", detail |-> r, ready |-> TfReady, touched |-> TRUE,
          response |-> r, content_length |-> 0]

\* a read that reports a response without content the way lines 169-174 do
ReadResourceEmptyIsError(r) ==
    IF session = "none" THEN NotConnected("read_resource")
    ELSE [op |-> "read_resource",
          kind |-> IF r \in {"raise", "empty"} THEN "error" ELSE "success",
          detail |-> IF r = "raise" THEN "library"
                     ELSE IF r = "empty" THEN "No response content" ELSE r,
          ready |-> TfReady, touched |-> TRUE, response |-> r,
          content_length |-> IF r \in Texts THEN TextLength ELSE 0]

\* lines 77-95 (and 97-115, get_workflow_guide): get_aws_best_practices: every
\* exception of the session call becomes an error envelope; a response without
\* contents is a success with a placeholder text and content_length 0
ReadResourceOutcome(r) ==
    IF session = "none" THEN NotConnected("read_resource")
    ELSE [op |-> "read_resource",
          kind |-> IF r = "raise" THEN "error" ELSE "success",
          detail |-> IF r = "raise" THEN "library"
                     ELSE IF r = "empty" THEN "No content available" ELSE r,
          ready |-> TfReady, touched |-> TRUE, response |-> r,
          content_length |-> IF r \in Texts THEN TextLength ELSE 0]

\* lines 137-179: execute_terraform_command (run_checkov_scan and
\* search_aws_provider_docs alike): every exception of the session call becomes an
\* error envelope, and so does an empty response; json.loads is tried on a text
\* and only its JSONDecodeError is caught inside (lines 159-160), which wraps the
\* text as {"output": text}; any other exception of json.loads reaches the outer
\* handler of line 173
CallToolOutcome(r) ==
    IF session = "none" THEN NotConnected("call_tool")
    ELSE [op |-> "call_tool",
          kind |-> IF r \in Texts /\ JsonLoads(r) \in {"value", "JSONDecodeError"}
                   THEN "success" ELSE "error",
          detail |-> IF r = "raise" THEN "library"
                     ELSE IF r = "empty" THEN "No response content"
                     ELSE IF JsonLoads(r) = "value" THEN "parsed"
                     ELSE IF JsonLoads(r) = "JSONDecodeError" THEN "output"
                     ELSE JsonLoads(r),
          ready |-> TfReady, touched |-> TRUE, response |-> r, content_length |-> 0]

ListOps == {"list_tools", "list_resources"}

Operations == ListOps \cup {"read_resource", "call_tool"}

TfList(op, r) ==
    /\ ctx # "spawned"
    /\ r \in SessionCall
    /\ outcome' = ListOutcome(op, r)
    /\ UNCHANGED <<session, sessionOpen, ctx, tfChild, connects>>
    /\ UNCHANGED <<dvars, fvars>>

TfReadResource(r) ==
    /\ ctx # "spawned"
    /\ r \in SessionCall
    /\ outcome' = ReadResourceOutcome(r)
    /\ UNCHANGED <<session, sessionOpen, ctx, tfChild, connects>>
    /\ UNCHANGED <<dvars, fvars>>

TfCallTool(r) ==
    /\ ctx # "spawned"
    /\ r \in SessionCall
    /\ outcome' = CallToolOutcome(r)
    /\ UNCHANGED <<session, sessionOpen, ctx, tfChild, connects>>
    /\ UNCHANGED <<dvars, fvars>>

TfNext ==
    \/ TfSpawn
    \/ TfSpawnFails
    \/ TfInitialize
    \/ TfInitializeFails
    \/ TfExit
    \/ TfChildExit
    \/ \E op \in ListOps, r \in Responses \cup {"raise"} : TfList(op, r)
    \/ \E r \in Responses \cup {"raise"} : TfReadResource(r)
    \/ \E r \in Responses \cup {"raise"} : TfCallTool(r)

TfSpec == Init /\ [][TfNext]_vars

Next ==
    \/ \E c \in Callers, m \in Methods : Call(c, m)
    \/ \E c \in Callers : Write(c)
    \/ \E c \in Callers : ReadLine(c)
    \/ \E n \in 1..MaxReq, b \in {"result", "error"} : ServerReply(n, b)
    \/ \E b \in {"garbage", "notify"} : ServerJunk(b)
    \/ \E p \in Pids : ChildExit(p)
    \/ \E n \in 1..MaxReq, b \in {"result", "garbage"} : ChildExitMidLine(n, b)
    \/ \E w \in {"direct", "widget"} : StartSpawn(w)
    \/ \E w \in {"direct", "widget"} : StartSpawnFails(w)
    \/ StartCheck
    \/ EnsureRunning
    \/ StopTerminate
    \/ StopWait

Spec == Init /\ [][Next]_vars
\* the scheduler runs every thread that can take a step: a caller inside
\* send_request and the controller inside start_server / stop_server go on; the
\* children (replies, exits) and the arrival of new calls are under no obligation
FairSpec ==
    /\ Spec
    /\ \A c \in Callers : WF_vars(Write(c)) /\ WF_vars(ReadLine(c))
    /\ WF_vars(StartCheck)
    /\ WF_vars(StopWait)

\* ------------------------------ start_server: the environment of the child
MaxEnvKeys == 3
EnvNames == <<"PATH", "AWS_PROFILE", "FASTMCP_LOG_LEVEL", "HOME">>
EnvKeys == {EnvNames[i] : i \in 1..MaxEnvKeys}
EnvValues == {"a", "b"}
\* the dicts of environment variables: functions from some of the keys to values
EnvDicts == UNION {[K -> EnvValues] : K \in SUBSET EnvKeys}

\* a merge in which the ambient value wins a collision
MergedEnvAmbientWins(a, b) ==
    [k \in DOMAIN a \cup DOMAIN b |-> IF k \in DOMAIN a THEN a[k] ELSE b[k]]

\* line 52: {**os.environ, **env}; the keys of both, the later dict wins
MergedEnv(a, b) ==
    [k \in DOMAIN a \cup DOMAIN b |-> IF k \in DOMAIN b THEN b[k] ELSE a[k]]

EnvInit ==
    /\ ClientsInit
    /\ fpc = "idle"
    /\ environ \in EnvDicts
    /\ env \in EnvDicts
    /\ merged_env = <<>>
    /\ ParseIdle /\ FrameIdle /\ RouteIdle /\ CwdIdle

\* lines 46-61: env is read from the configuration, merged over os.environ and
\* handed to Popen
StartServerEnv ==
    /\ fpc = "idle"
    /\ fpc' = "spawned"
    /\ merged_env' = MergedEnv(environ, env)
    /\ UNCHANGED <<environ, env, solution_text, components, message, encoded, decoded, route,
                   result, answer, cwd, original_dir, diagram_file, temp_dir, entry_dir>>
    /\ UNCHANGED <<dvars, tvars>>

EnvNext == StartServerEnv

EnvSpec == EnvInit /\ [][EnvNext]_vars

\* ------------------------- _parse_aws_components (widget, lines 90-167)
MaxChars == 4
\* the characters of the texts: enough to spell the keywords 's3', 'sqs' and
\* 'sns' of the map, in either case of the letter s
Alphabet == {"s", "S", "3", "q", "n"}
SolutionTexts == UNION {[1..k -> Alphabet] : k \in 0..MaxChars}

\* str.lower(), line 156
LowerChar(ch) == IF ch = "S" THEN "s" ELSE ch
Lower(t) == [i \in 1..Len(t) |-> LowerChar(t[i])]

\* keyword in solution_lower (line 159): the keyword is a substring of the text
Occurs(keyword, t) ==
    \E i \in 0..(Len(t) - Len(keyword)) : \A j \in 1..Len(keyword) : t[i + j] = keyword[j]

\* the entries of aws_services_map (lines 93-153) that a text over Alphabet
\* can contain, in the order of the dict
aws_services_map ==
    << [keyword |-> <<"s", "3">>, service |-> "S3"],
       [keyword |-> <<"s", "q", "s">>, service |-> "SQS"],
       [keyword |-> <<"s", "n", "s">>, service |-> "SNS"] >>

\* lines 158-160: the services appended, in the order of the dict
RECURSIVE Appended(_, _)
Appended(i, solution_lower) ==
    IF i > Len(aws_services_map) THEN <<>>
    ELSE (IF Occurs(aws_services_map[i].keyword, solution_lower)
          THEN <<aws_services_map[i].service>> ELSE <<>>)
         \o Appended(i + 1, solution_lower)

\* no default at all
NoDefaultComponents == <<>>

\* lines 163-164
DefaultComponents == <<"APIGateway", "Lambda", "DynamoDB">>

Range(q) == {q[i] : i \in 1..Len(q)}

\* list(set(components)), line 166: every element once, in an order that the
\* hashing of the build decides
ListOfSet(S) == {q \in [1..Cardinality(S) -> S] : Range(q) = S}

\* the lists _parse_aws_components can return for a text
ParseAwsComponents(text) ==
    LET found == Appended(1, Lower(text))
        all == IF found = <<>> THEN DefaultComponents ELSE found
    IN  ListOfSet(Range(all))

ParseInit ==
    /\ ClientsInit
    /\ fpc = "idle"
    /\ solution_text \in SolutionTexts
    /\ components = <<>>
    /\ EnvIdle /\ FrameIdle /\ RouteIdle /\ CwdIdle

ParseComponents ==
    /\ fpc = "idle"
    /\ fpc' = "returned"
    /\ components' \in ParseAwsComponents(solution_text)
    /\ UNCHANGED <<environ, env, merged_env, solution_text, message, encoded, decoded, route,
                   result, answer, cwd, original_dir, diagram_file, temp_dir, entry_dir>>
    /\ UNCHANGED <<dvars, tvars>>

ParseNext == ParseComponents

ParseSpec == ParseInit /\ [][ParseNext]_vars

\* --------------------- send_request: the frames (mcp_client.py, 90-107)
MaxPayload == 2
\* the characters of a string value, each named: a letter, the line feed, the
\* double quote, the backslash, the comma and a character outside ASCII
Chars == {"a", "LF", "DQ", "BS", ",", "U+00E9"}
Strings == UNION {[1..k -> Chars] : k \in 0..MaxPayload}

\* the dicts that are encoded: a request with its method and params, a reply
\* with its result or its error
Messages ==
    [kind : {"request"}, method : Methods, payload : Strings]
        \cup [kind : {"result", "error"}, method : {""}, payload : Strings]

\* an encoder that writes the line feed as it is
EscapeRawLineFeed(ch) ==
    CASE ch = "DQ" -> <<"BS", "DQ">>
      [] ch = "BS" -> <<"BS", "BS">>
      [] ch = "U+00E9" -> <<"BS", "u00e9">>
      [] OTHER -> <<ch>>

\* json.dumps of one character of a string (line 98; ensure_ascii is on): the
\* line feed becomes \n, the quote \", the backslash \\, a character outside
\* ASCII a \uXXXX escape; the characters written are "BS" and what follows it
Escape(ch) ==
    CASE ch = "LF" -> <<"BS", "n">>
      [] ch = "DQ" -> <<"BS", "DQ">>
      [] ch = "BS" -> <<"BS", "BS">>
      [] ch = "U+00E9" -> <<"BS", "u00e9">>
      [] OTHER -> <<ch>>

RECURSIVE DumpsChars(_)
DumpsChars(str) == IF str = <<>> THEN <<>> ELSE Escape(Head(str)) \o DumpsChars(Tail(str))

\* json.dumps of a string
DumpsString(str) == <<"DQ">> \o DumpsChars(str) \o <<"DQ">>

\* line 98: json.dumps(request) + "\n"; the keys of the dict are one token, the
\* method is a literal without a character to escape
EncodeFrame(m) ==
    <<"{", m.kind, ":", "DQ", m.method, "DQ", ",">> \o DumpsString(m.payload) \o <<"}", "LF">>

\* readline() (line 104): the characters up to the first line feed, with it
Readline(text) ==
    IF \E i \in 1..Len(text) : text[i] = "LF"
    THEN SubSeq(text, 1, CHOOSE i \in 1..Len(text) :
                            text[i] = "LF" /\ \A j \in 1..(i - 1) : text[j] # "LF")
    ELSE text

\* str.strip() (line 106): the white space at both ends goes
RECURSIVE Strip(_)
Strip(text) ==
    IF text = <<>> THEN text
    ELSE IF Head(text) = "LF" THEN Strip(Tail(text))
    ELSE IF text[Len(text)] = "LF" THEN Strip(SubSeq(text, 1, Len(text) - 1))
    ELSE text

JSONDecodeError == [kind |-> "JSONDecodeError", method |-> "", payload |-> <<>>]

\* json.loads inside a string, from position i on: acc is what is decoded so
\* far; the result is the string and the position after its closing quote, or
\* ok = FALSE at a raw line feed, an unknown escape or the end of the text
RECURSIVE LoadsChars(_, _, _)
LoadsChars(text, i, acc) ==
    IF i > Len(text) THEN [ok |-> FALSE, value |-> <<>>, next |-> i]
    ELSE IF text[i] = "DQ" THEN [ok |-> TRUE, value |-> acc, next |-> i + 1]
    ELSE IF text[i] = "LF" THEN [ok |-> FALSE, value |-> <<>>, next |-> i]
    ELSE IF text[i] = "BS"
         THEN IF i + 1 > Len(text) THEN [ok |-> FALSE, value |-> <<>>, next |-> i]
              ELSE IF text[i + 1] = "n" THEN LoadsChars(text, i + 2, Append(acc, "LF"))
              ELSE IF text[i + 1] = "DQ" THEN LoadsChars(text, i + 2, Append(acc, "DQ"))
              ELSE IF text[i + 1] = "BS" THEN LoadsChars(text, i + 2, Append(acc, "BS"))
              ELSE IF text[i + 1] = "u00e9"
                   THEN LoadsChars(text, i + 2, Append(acc, "U+00E9"))
              ELSE [ok |-> FALSE, value |-> <<>>, next |-> i]
    ELSE LoadsChars(text, i + 1, Append(acc, text[i]))

\* json.loads of a frame (line 106): the object, its keys, the method and the
\* string value, and nothing after the closing brace
Loads(text) ==
    IF /\ Len(text) >= 10
       /\ text[1] = "{" /\ text[2] \in {"request", "result", "error"} /\ text[3] = ":"
       /\ text[4] = "DQ" /\ text[6] = "DQ" /\ text[7] = "," /\ text[8] = "DQ"
    THEN LET str == LoadsChars(text, 9, <<>>)
         IN  IF str.ok /\ str.next = Len(text) /\ text[str.next] = "}"
             THEN [kind |-> text[2], method |-> text[5], payload |-> str.value]
             ELSE JSONDecodeError
    ELSE JSONDecodeError

\* lines 104-106: what the reader of the pipe makes of the frame
DecodeFrame(text) == Loads(Strip(Readline(text)))

FrameInit ==
    /\ ClientsInit
    /\ fpc = "idle"
    /\ message \in Messages
    /\ encoded = <<>>
    /\ decoded = NoMessage
    /\ EnvIdle /\ ParseIdle /\ RouteIdle /\ CwdIdle

\* lines 98-100: the frame is encoded and written
EncodeWrite ==
    /\ fpc = "idle"
    /\ fpc' = "written"
    /\ encoded' = EncodeFrame(message)
    /\ UNCHANGED <<environ, env, merged_env, solution_text, components, message, decoded, route,
                   result, answer, cwd, original_dir, diagram_file, temp_dir, entry_dir>>
    /\ UNCHANGED <<dvars, tvars>>

\* lines 104-106: the frame is read and decoded
ReadDecode ==
    /\ fpc = "written"
    /\ fpc' = "decoded"
    /\ decoded' = DecodeFrame(encoded)
    /\ UNCHANGED <<environ, env, merged_env, solution_text, components, message, encoded, route,
                   result, answer, cwd, original_dir, diagram_file, temp_dir, entry_dir>>
    /\ UNCHANGED <<dvars, tvars>>

FrameNext == EncodeWrite \/ ReadDecode

FrameSpec == FrameInit /\ [][FrameNext]_vars

\* ------------------- the web routes (terraform_demo_live.py, 440-712)
\* the routes that list tools or resources, the routes that run one operation
\* of the client, and the two routes with a logic of their own
ListRoutes == {"/mcp-tools", "/mcp-resources"}
OperationRoutes ==
    {"/best-practices", "/workflow-guide", "/terraform-init", "/terraform-plan",
     "/checkov-scan", "/search-aws-provider-docs", "/aws-provider-resources"}
Routes == ListRoutes \cup OperationRoutes \cup {"/mcp-server-info", "/generate-resource"}

\* request.args.get('resource_type', ''), line 631
ResourceTypes == {"", "ec2", "aws_s3_bucket"}

\* how run_async_function(wrapper) ends (mcp_client.py 269-342): connect()
\* raises, the operation or the exit of the context raises, or a dict comes
\* back; the list wrappers build a dict with status success (314, 326), the
\* operations return status success or error
ListCallOutcomes == {"connect_failed", "raised", "status_success"}
OperationCallOutcomes == ListCallOutcomes \cup {"status_error"}
\* search_live_aws_provider_docs as generate_resource tells its results apart
\* (lines 655-659): documentation found, none found, an empty result, a result
\* that is no dict
DocsCallOutcomes ==
    {"connect_failed", "raised", "status_error", "success_found", "success_not_found",
     "success_no_result", "success_not_dict"}

CallOutcomes(name) ==
    IF name \in ListRoutes \cup {"/mcp-server-info"} THEN ListCallOutcomes
    ELSE IF name = "/generate-resource" THEN DocsCallOutcomes
    ELSE OperationCallOutcomes

CallRaised(o) == o \in {"connect_failed", "raised"}

\* a handler that catches nothing
ExceptNothing(exc) == FALSE

\* except Exception as e (lines 461, 475, ..., 707): RuntimeError, OSError,
\* AttributeError, TypeError and the errors of the session are all caught
ExceptException(exc) == exc \in {"connect_failed", "raised", "OSError", "AttributeError"}

\* jsonify({"status": ...})
JsonAnswer(status) == [json |-> TRUE, status |-> status, code |-> 200]
\* the page of the framework for an error that no handler caught
Unhandled == [json |-> FALSE, status |-> "none", code |-> 500]

ErrorAnswer(exc) == IF ExceptException(exc) THEN JsonAnswer("error") ELSE Unhandled

\* lines 655-705 of generate_resource, for a result that is a dict
GenerateAnswer(docs, written) ==
    CASE docs = "success_found" ->
             IF written THEN JsonAnswer("success") ELSE ErrorAnswer("OSError")
      [] docs = "success_not_found" -> JsonAnswer("error")
      [] docs = "success_not_dict" -> ErrorAnswer("AttributeError")
      [] OTHER -> JsonAnswer("error")

\* what a route answers once its client call has ended with outcome o
RouteAnswer(name, o, written) ==
    IF CallRaised(o) THEN ErrorAnswer(o)
    ELSE IF name = "/generate-resource" THEN GenerateAnswer(o, written)
    ELSE IF name = "/mcp-server-info" THEN JsonAnswer("success")
    ELSE JsonAnswer(IF o = "status_error" THEN "error" ELSE "success")

RouteInit == Init

\* a request arrives; generate_resource answers at once when no resource type is
\* given (lines 631-638)
RouteReceive(name, rt) ==
    /\ fpc = "idle"
    /\ route = NoRoute
    /\ name = "/generate-resource" \/ rt = ""
    /\ route' = [name |-> name, resource_type |-> rt]
    /\ IF name = "/generate-resource" /\ rt = ""
       THEN answer' = JsonAnswer("error") /\ fpc' = "answered"
       ELSE answer' = answer /\ fpc' = "try"
    /\ UNCHANGED <<environ, env, merged_env, solution_text, components, message, encoded,
                   decoded, result, cwd, original_dir, diagram_file, temp_dir, entry_dir>>
    /\ UNCHANGED <<dvars, tvars>>

\* the client call of the route ends; mcp_server_info goes on to its second
\* call when the first gave a dict (lines 444-445)
RouteCall(o) ==
    /\ fpc = "try"
    /\ o \in CallOutcomes(route.name)
    /\ result' = o
    /\ fpc' = IF route.name = "/mcp-server-info" /\ ~CallRaised(o) THEN "try_resources"
              ELSE "called"
    /\ UNCHANGED <<environ, env, merged_env, solution_text, components, message, encoded,
                   decoded, route, answer, cwd, original_dir, diagram_file, temp_dir,
                   entry_dir>>
    /\ UNCHANGED <<dvars, tvars>>

RouteCallResources(o) ==
    /\ fpc = "try_resources"
    /\ o \in ListCallOutcomes
    /\ result' = o
    /\ fpc' = "called"
    /\ UNCHANGED <<environ, env, merged_env, solution_text, components, message, encoded,
                   decoded, route, answer, cwd, original_dir, diagram_file, temp_dir,
                   entry_dir>>
    /\ UNCHANGED <<dvars, tvars>>

\* the rest of the route: the response, or the handler; written tells whether
\* generate_resource could write its file (lines 666-667)
RouteRespond(written) ==
    /\ fpc = "called"
    /\ written \/ (route.name = "/generate-resource" /\ result = "success_found")
    /\ answer' = RouteAnswer(route.name, result, written)
    /\ fpc' = "answered"
    /\ UNCHANGED <<environ, env, merged_env, solution_text, components, message, encoded,
                   decoded, route, result, cwd, original_dir, diagram_file, temp_dir,
                   entry_dir>>
    /\ UNCHANGED <<dvars, tvars>>

RouteNext ==
    \/ \E name \in Routes, rt \in ResourceTypes : RouteReceive(name, rt)
    \/ \E o \in DocsCallOutcomes \cup OperationCallOutcomes : RouteCall(o)
    \/ \E o \in ListCallOutcomes : RouteCallResources(o)
    \/ \E written \in BOOLEAN : RouteRespond(written)

RouteSpec == RouteInit /\ [][RouteNext]_vars

\* ------- _generate_diagram_direct (mcp_client_lightweight.py, 133-184)
MaxDirs == 6
DirNames == <<"/tmp", "/var/tmp", "/app", "/home/user", "/srv", "/", "/opt">>
Dirs == {DirNames[i] : i \in 1..MaxDirs}
\* where tempfile.NamedTemporaryFile puts the file of the diagram
TempDirs == {DirNames[1], DirNames[2]}

CwdInit ==
    /\ ClientsInit
    /\ fpc = "idle"
    /\ cwd \in Dirs
    /\ entry_dir = cwd
    /\ temp_dir \in TempDirs
    /\ original_dir = ""
    /\ diagram_file = TRUE
    /\ EnvIdle /\ ParseIdle /\ FrameIdle /\ RouteIdle

\* what the actions of this function leave alone
CwdFrame ==
    /\ UNCHANGED <<environ, env, merged_env, solution_text, components, message, encoded,
                   decoded, route, result, answer, temp_dir, entry_dir>>
    /\ UNCHANGED <<dvars, tvars>>

\* a handler that does not go back
ExceptWithoutChdir(at) ==
    /\ cwd' = cwd
    /\ diagram_file' = FALSE
    /\ fpc' = at
    /\ UNCHANGED original_dir

\* lines 180-184: back to original_dir, the file removed, the exception raised
\* again; at tells which statement raised
Except(at) ==
    /\ cwd' = original_dir
    /\ diagram_file' = FALSE
    /\ fpc' = at
    /\ UNCHANGED original_dir

\* line 136
GetCwd ==
    /\ fpc = "idle"
    /\ original_dir' = cwd
    /\ fpc' = "chdir"
    /\ UNCHANGED <<cwd, diagram_file>>
    /\ CwdFrame

\* lines 137-138; os.chdir raises when the directory cannot be entered
ChdirTemp(ok) ==
    /\ fpc = "chdir"
    /\ IF ok THEN cwd' = temp_dir /\ fpc' = "diagram" /\ UNCHANGED <<original_dir, diagram_file>>
       ELSE Except("raised_chdir")
    /\ CwdFrame

\* lines 140-155: the diagram is rendered, with a file or without, or raises
Diagram(ok, file) ==
    /\ fpc = "diagram"
    /\ IF ok THEN diagram_file' = file /\ fpc' = "rendered" /\ UNCHANGED <<cwd, original_dir>>
       ELSE file /\ Except("raised_diagram")
    /\ CwdFrame

\* line 157
ChdirBack ==
    /\ fpc = "rendered"
    /\ cwd' = original_dir
    /\ fpc' = "back"
    /\ UNCHANGED <<original_dir, diagram_file>>
    /\ CwdFrame

\* lines 160-178: the file is read and removed and the reply returned, or the
\* reading raises, or there is no file
ReadDiagram(ok) ==
    /\ fpc = "back"
    /\ IF ~diagram_file
       THEN ok /\ fpc' = "returned_error" /\ UNCHANGED <<cwd, original_dir, diagram_file>>
       ELSE IF ok
            THEN diagram_file' = FALSE /\ fpc' = "returned_result"
                 /\ UNCHANGED <<cwd, original_dir>>
            ELSE Except("raised_read")
    /\ CwdFrame

CwdNext ==
    \/ GetCwd
    \/ \E ok \in BOOLEAN : ChdirTemp(ok)
    \/ \E ok, file \in BOOLEAN : Diagram(ok, file)
    \/ ChdirBack
    \/ \E ok \in BOOLEAN : ReadDiagram(ok)

CwdSpec == CwdInit /\ [][CwdNext]_vars

\* ---------------------------------------------------------------- claims

\* C1: with a server that emits exactly one reply per request and nothing else,
\* every reply a send_request returns is the reply to the request that call
\* wrote and carries the id the call was dispatched with, whatever the order in
\* which concurrent calls are answered.
C1_NoCrossWiring ==
    (returned.kind = "reply" /\ junk = 0) =>
        (returned.re = returned.seq /\ returned.id = RequestId)

\* C2: a request is never written with an id that an earlier request of the
\* same session (the same child) was written with.
C2_FreshIds ==
    [][\A c \in Callers :
          (pc[c] = "write" /\ pc'[c] = "blocked") =>
              Frame(req[c].method, req[c].seq).id \notin usedIds]_vars

\* C3: a call that is waiting for its reply returns in the end (with a timeout
\* error when no reply comes): it does not block forever.
C3_CallReturns ==
    \A c \in Callers : (pc[c] = "blocked") ~> (pc[c] = "idle")

\* C4: when the child's stdout is at EOF, every call that is waiting for a reply
\* returns in the end with the connection-lost error "No response from server".
C4_EOFResolvesAll ==
    \A c \in Callers :
        (pc[c] = "blocked" /\ AtEOF) ~>
            (returned.by = c /\ returned.kind = "error"
                /\ returned.msg = "No response from server")

\* C4 witness: at EOF one waiting call has just returned the connection-lost
\* error while another call is still waiting.
C4_Witness ==
    /\ AtEOF
    /\ returned.kind = "error" /\ returned.msg = "No response from server"
    /\ \E c \in Callers : c # returned.by /\ pc[c] = "blocked"

\* C5: a stop_server call on a client that was never started, or that follows a
\* stop_server call that has returned (nothing started in between), changes
\* nothing of the client, the child or the widget, and raises nothing.
C5_CloseIdempotent ==
    [][(StopTerminate /\ (server_process = 0 \/ stops >= 1)) =>
          (/\ UNCHANGED <<server_process, pstate, sigterm, stdin, stdout, usedIds,
                          is_server_running, ctl>>
           /\ lastExc' = "none")]_vars

\* C5 witness: a second stop_server call has returned on a client that was started.
C5_Witness == stops = 2 /\ server_process # 0 /\ lastExc = "none"

\* C7: every request other than initialize that the child has been sent was
\* written after an initialize call had returned its reply.
C7_HandshakeFirst == \A f \in stdin : f.method # "initialize" => handshook

\* the session state of spec section 4.3 as the client's fields show it
SessionState ==
    IF server_process = 0 THEN "Unconnected"
    ELSE IF ctl = "starting" THEN "Starting"
    ELSE IF ctl = "stopping" THEN "Closing"
    ELSE IF pstate[server_process] = "running" THEN "Ready"
    ELSE IF sigterm[server_process] THEN "Closed"
    ELSE "Errored"

NonTerminal == {"Unconnected", "Starting", "Handshaking", "Ready", "Closing"}

AllowedTransitions ==
    {<<"Unconnected", "Starting">>, <<"Starting", "Handshaking">>,
     <<"Handshaking", "Ready">>, <<"Ready", "Closing">>, <<"Closing", "Closed">>}
    \cup {<<x, "Errored">> : x \in NonTerminal}

\* C8: the session state changes only along Unconnected -> Starting ->
\* Handshaking -> Ready -> Closing -> Closed or to Errored from a non-terminal
\* state; nothing leaves Errored.
C8_StateMachine ==
    [][SessionState' # SessionState =>
          <<SessionState, SessionState'>> \in AllowedTransitions]_vars

\* C9: when a call in flight has returned the connection-lost error because the
\* child was killed, the session is no longer taken to be running: the flag
\* that _ensure_server_running consults is not set.
C9_KilledMeansErrored ==
    (returned.kind = "error" /\ returned.msg = "No response from server") =>
        ~is_server_running
\* C6: a list-tools or list-resources call made while the session is not Ready
\* fails with the not-connected outcome and does not touch the session.
C6_NotConnected ==
    (outcome.op \in ListOps /\ ~outcome.ready) =>
        (outcome.kind = "raise" /\ outcome.detail = "Not connected to MCP server"
         /\ ~outcome.touched)

\* C10: every operation returns to its caller (an outcome envelope, or the list it
\* was asked for); no exception escapes it.
C10_NoEscape == outcome.op \in Operations => outcome.kind # "raise"
\* C11: a line of the child that answers no pending call (an unsolicited
\* message) is never returned by send_request as the result of a call.
C11_JunkDiscarded == returned.kind = "reply" => returned.re # 0

\* the children that are running
Running == {p \in Pids : pstate[p] = "running"}

\* C12: at most one child process started by the client is running.
C12_OneChild == Cardinality(Running) <= 1
C14_CompleteFrames == returned.kind = "reply" => returned.nl
\* C15: stop_server tears the transport down only after the pending calls are
\* resolved: when it signals the child, no call is waiting for a reply.
C15_CloseOrder ==
    [][(StopTerminate /\ sigterm' # sigterm) => \A c \in Callers : pc[c] # "blocked"]_vars

\* C16: a stop_server call that has signalled the child returns, also when the
\* child does not exit on the signal.
C16_ShutdownReturns == (ctl = "stopping") ~> (ctl = "idle")
OpenPipes == IF server_process = 0 THEN {} ELSE {server_process}

\* C18: when start_server returns after a failed start (the child is found dead
\* at the check), no pipe of the client is left open.
C18_Released ==
    [][(StartCheck /\ pstate[server_process] = "exited") => OpenPipes' = {}]_vars
\* C19: when the line a call reads is the server's error reply to that call, the
\* call returns that reply to its caller, the caller's test takes it as a
\* failure, and it is not one of the client's own transport error results.
C19_ApplicationError ==
    [][\A c \in Callers :
          (/\ ReadLine(c)
           /\ stdout # <<>>
           /\ Head(stdout).body = "error"
           /\ Head(stdout).re = req[c].seq)
          => (/\ returned'.by = c
              /\ returned'.kind = "reply"
              /\ returned'.body = "error"
              /\ IsFailure(returned'))]_vars

\* C19 witness: a call has returned the server's error reply to its own request.
C19_Witness ==
    returned.kind = "reply" /\ returned.body = "error" /\ returned.re = returned.seq
\* C20: a read of a resource whose response holds no content returns a success
\* envelope with content_length 0, never an error status.
C20_EmptyIsSuccess ==
    (outcome.op = "read_resource" /\ outcome.response = "empty") =>
        (outcome.kind = "success" /\ outcome.content_length = 0)

\* C20 witness: a read on a Ready session has returned for a response without
\* content.
C20_Witness ==
    outcome.op = "read_resource" /\ outcome.response = "empty" /\ outcome.ready
\* C21: a tool call whose response carries a text returns a success envelope,
\* whether or not the text can be decoded as JSON.
C21_TextIsSuccess ==
    (outcome.op = "call_tool" /\ outcome.response \in Texts) => outcome.kind = "success"
\* the write() calls in the pipe that belong to the call numbered n
WritesOf(n) == {i \in 1..Len(wire) : wire[i].seq = n}

\* C25 as stated: at most one request is in flight: no two calls have written
\* their frame and not yet finished their read.
C25_OneInFlight == Cardinality({c \in Callers : pc[c] = "blocked"}) <= 1

\* C25 amended: a send_request call that returns after its write has written
\* exactly one frame and has read at most one line.
C25_OneWriteOneRead ==
    [][\A c \in Callers :
          (pc[c] = "blocked" /\ pc'[c] = "idle") =>
              (/\ Cardinality(WritesOf(req[c].seq)) = 1
               /\ Len(stdout) - Len(stdout') <= 1)]_vars

\* C25 witness: a call has written its frame, read the one line in the pipe and
\* returned it.
C25_Witness ==
    returned.kind = "reply" /\ returned.body = "result" /\ Len(wire) = 1 /\ stdout = <<>>

\* C27: a call never returns the reply the server produced for an earlier
\* request.
C27_NoStaleReply ==
    (returned.kind = "reply" /\ returned.re # 0) => returned.re >= returned.seq

\* C28: whenever _ensure_server_running would return True without starting a
\* server (the flag is set), the client's server process is alive.
C28_FlagMeansAlive == (ctl = "idle" /\ is_server_running) => Alive(server_process)

\* C29: self.session is set only while the connect() context is open.
C29_SessionScoped == session = "set" => ctx = "in"

C23_Services ==
    fpc = "returned" =>
        LET occurring == {aws_services_map[i].service :
                             i \in {n \in 1..Len(aws_services_map) :
                                       Occurs(aws_services_map[n].keyword, Lower(solution_text))}}
        IN  /\ Len(components) > 0
            /\ \A i, j \in 1..Len(components) : components[i] = components[j] => i = j
            /\ Range(components) = IF occurring = {} THEN {"APIGateway", "Lambda", "DynamoDB"}
                                   ELSE occurring

\* the call returned two services for a text that spells one keyword in upper
\* case and overlaps it with another
C23_Witness ==
    /\ fpc = "returned"
    /\ solution_text = <<"s", "q", "S", "3">>
    /\ Range(components) = {"S3", "SQS"}

\* C24: an encoded frame is exactly one line, and decoding it gives back the
\* method and params of the request, or the result or error of the reply, that
\* was encoded.
C24_RoundTrip ==
    /\ fpc \in {"written", "decoded"} =>
          /\ encoded[Len(encoded)] = "LF"
          /\ \A i \in 1..(Len(encoded) - 1) : encoded[i] # "LF"
    /\ fpc = "decoded" => decoded = message

\* a request whose params hold a line feed and a double quote was encoded and
\* decoded
C24_Witness ==
    /\ fpc = "decoded"
    /\ message.kind = "request"
    /\ message.payload = <<"LF", "DQ">>
    /\ decoded.payload = <<"LF", "DQ">>
    /\ Len(encoded) = 15

\* C26: every route that calls the MCP client answers with a JSON object whose
\* status is success or error, whatever the call did: when the call raised or
\* the connect failed the status is error, and no failure of the client leaves
\* the route unhandled.
C26_AlwaysJson ==
    fpc = "answered" =>
        /\ answer.json
        /\ answer.status \in {"success", "error"}
        /\ (CallRaised(result) \/ result = "status_error") => answer.status = "error"

\* a route answered after its connect had failed
C26_Witness ==
    /\ fpc = "answered"
    /\ route.name = "/terraform-plan"
    /\ result = "connect_failed"
    /\ answer = [json |-> TRUE, status |-> "error", code |-> 200]

====
